---- MODULE Spec2Model ----
(***************************************************************************)
(* State-machine model of the fitness app's authentication controller      *)
(* (src/controllers/auth.ts), workout persistence (src/models/workouts.ts) *)
(* and the create-workout client (src/client/ts/pages/workout/create.ts).  *)
(***************************************************************************)
EXTENDS Integers, Sequences, FiniteSets, Bags, TLC

\* ------------------------------------------------------------ bounds
MaxUsers == 2
MaxWorkouts == 3
MaxSets == 2
\* how many recent workouts the dashboard asks for
HistoryRows == 1

\* ------------------------------------------------------------ input domains
Sessions == {"s1", "s2"}
Emails == {"ann@fit.io", "bob@fit.io"}
Passwords == {"pw1", "pw2"}
SignupNames == {"ann"}
NewNames == {"amy"}
Salts == {"saltA"}
\* what a login form can carry: a field may be left empty
LoginEmails == Emails \cup {""}
LoginPasswords == Passwords \cup {""}

NoId == 0
NoUser == [id |-> NoId]

VARIABLES
    users,      \* table `user`: sequence of rows [id, email, username, password]
    session,    \* per browser session: session.passport.user (a user id) or NoId
    resp,       \* the response to the last request (and what the request carried along)
    workouts,   \* table `workout`: set of rows [id, name, date, time, user_id]
    sets,       \* table `set`: bag of rows [reps, weight, exercise_id, workout_id]
    inflight    \* per session: the create-workout request being served, or NoReq

vars == <<users, session, resp, workouts, sets, inflight>>

\* ------------------------------------------------------------ bcrypt
\* bcrypt.hash(password, 10): a salted digest; the salt travels in the hash.
BcryptHash(password, salt) ==
    [alg |-> "bcrypt", cost |-> 10, salt |-> salt, digest |-> <<salt, password>>]

\* bcrypt.compare(password, hash): re-hash with the hash's own salt and compare.
BcryptCompare(password, hash) ==
    BcryptHash(password, hash.salt) = hash

\* ------------------------------------------------------------ models/user
UserIds(us) == {us[i].id : i \in DOMAIN us}

GetUserByEmail(us, email) ==
    IF \E i \in DOMAIN us : us[i].email = email
    THEN us[CHOOSE i \in DOMAIN us : us[i].email = email]
    ELSE NoUser

GetUserById(us, id) ==
    IF \E i \in DOMAIN us : us[i].id = id
    THEN us[CHOOSE i \in DOMAIN us : us[i].id = id]
    ELSE NoUser

\* INSERT INTO user; `email` is UNIQUE, so a duplicate (or a lost connection)
\* makes the statement throw and leaves the table as it was.
CreateUser(us, email, hash, username, dbOk) ==
    IF ~dbOk \/ GetUserByEmail(us, email) # NoUser
    THEN [threw |-> TRUE, table |-> us]
    ELSE [threw |-> FALSE,
          table |-> Append(us, [id |-> Len(us) + 1, email |-> email,
                                username |-> username, password |-> hash])]

\* UPDATE user SET username = ? WHERE id = ?
UpdateUsername(us, id, username) ==
    [i \in DOMAIN us |->
        IF us[i].id = id THEN [us[i] EXCEPT !.username = username] ELSE us[i]]

\* ------------------------------------------------------------ passport wiring
\* verify: done(error) | done(null, false, {message}) | done(null, user)
Verify(us, email, password, dbOk) ==
    IF ~dbOk
    THEN [error |-> TRUE, user |-> NoUser, message |-> ""]
    ELSE LET user == GetUserByEmail(us, email) IN
         IF user = NoUser
         THEN [error |-> FALSE, user |-> NoUser, message |-> "Incorrect email."]
         ELSE IF ~BcryptCompare(password, user.password)
         THEN [error |-> FALSE, user |-> NoUser, message |-> "password incorrect"]
         ELSE [error |-> FALSE, user |-> user, message |-> ""]

\* serializeUser: what goes into the session
SerializeUser(user) == user.id

\* (mutant) the record attached to the previous request is served again
\* instead of being fetched
DeserializeUserCached(us, id, dbOk) ==
    IF id = NoId
    THEN [error |-> FALSE, user |-> NoUser]
    ELSE IF resp.user # NoUser /\ resp.user.id = id
    THEN [error |-> FALSE, user |-> resp.user]
    ELSE IF ~dbOk
    THEN [error |-> TRUE, user |-> NoUser]
    ELSE [error |-> FALSE, user |-> GetUserById(us, id)]

\* deserializeUser, run by the session middleware on every request that carries
\* a session identity: callback(error) or callback(null, user)
DeserializeUser(us, id, dbOk) ==
    IF id = NoId
    THEN [error |-> FALSE, user |-> NoUser]
    ELSE IF ~dbOk
    THEN [error |-> TRUE, user |-> NoUser]
    ELSE [error |-> FALSE, user |-> GetUserById(us, id)]

\* req.isAuthenticated(): a user is attached to the request
IsAuthenticated(reqUser) == reqUser # NoUser

\* the guards: "next" lets the handler run, anything else is the redirect target
CheckAuthenticated(reqUser) ==
    IF IsAuthenticated(reqUser) THEN "next" ELSE "/login"

\* (mutant) the redirect is sent without `return`, so next() runs all the same
CheckNotAuthenticatedFallThrough(reqUser) == "next"

CheckNotAuthenticated(reqUser) ==
    IF IsAuthenticated(reqUser) THEN "/" ELSE "next"

\* ------------------------------------------------------------ responses
\* sid/route/email: the request (email: the form's email field, when it has
\* one); kind/target: what was sent; handler: whether the route's handler body
\* ran; user: the user the session middleware attached; body: rows handed to a
\* rendered view; nav: where the page script then sends the browser (only for
\* requests made with fetch)
Resp(s, route, kind, target, handler, user) ==
    [sid |-> s, route |-> route, email |-> "", kind |-> kind, target |-> target,
     handler |-> handler, user |-> user, body |-> <<>>, nav |-> ""]

NoResp == Resp("", "", "none", "", FALSE, NoUser)

\* next(err): the request ends in the framework's error response
ErrorResp(s, route, user) == Resp(s, route, "error", "next(err)", FALSE, user)

NoReq == [workoutId |-> NoId]

\* ------------------------------------------------------------ auth routes
\* passport.authenticate('local', { failureRedirect: '/login' }) with the local
\* strategy reading `email` (usernameField) and `password` from the body
Authenticate(us, email, password, dbOk) ==
    IF email = "" \/ password = ""
    THEN [outcome |-> "fail", user |-> NoUser, message |-> "Missing credentials"]
    ELSE LET v == Verify(us, email, password, dbOk) IN
         IF v.error
         THEN [outcome |-> "error", user |-> NoUser, message |-> v.message]
         ELSE IF v.user = NoUser
         THEN [outcome |-> "fail", user |-> NoUser, message |-> v.message]
         ELSE [outcome |-> "success", user |-> v.user, message |-> v.message]

\* router.get('/signup', checkNotAuthenticated, ...)
GetSignup(s, dbOk) ==
    LET d == DeserializeUser(users, session[s], dbOk)
        g == CheckNotAuthenticated(d.user)
    IN  /\ resp' = IF d.error THEN ErrorResp(s, "GET /signup", NoUser)
                   ELSE IF g = "next"
                   THEN Resp(s, "GET /signup", "render", "signup", TRUE, d.user)
                   ELSE Resp(s, "GET /signup", "redirect", g, FALSE, d.user)
        /\ UNCHANGED <<users, session, workouts, sets, inflight>>

\* (mutant) no try/catch around createUser: a rejected insert is not handled
SignupHandlerUncaught(us, email, password, username, salt, dbOk) ==
    LET c == CreateUser(us, email, BcryptHash(password, salt), username, dbOk)
    IN  [table |-> c.table, kind |-> IF c.threw THEN "uncaught" ELSE "redirect",
         target |-> IF c.threw THEN "" ELSE "/login"]

\* the '/signup' handler body: try { hash; createUser; redirect('/login') }
\* catch { redirect('/signup') }
SignupHandler(us, email, password, username, salt, dbOk) ==
    LET c == CreateUser(us, email, BcryptHash(password, salt), username, dbOk)
    IN  [table |-> c.table, kind |-> "redirect",
         target |-> IF c.threw THEN "/signup" ELSE "/login"]

\* router.post('/signup', ...): no guard
PostSignup(s, email, password, username, salt, dbOk) ==
    LET d == DeserializeUser(users, session[s], dbOk)
        h == SignupHandler(users, email, password, username, salt, dbOk)
    IN  /\ Len(h.table) <= MaxUsers
        /\ IF d.error
           THEN /\ resp' = [ErrorResp(s, "POST /signup", NoUser) EXCEPT !.email = email]
                /\ users' = users
           ELSE /\ resp' = [Resp(s, "POST /signup", h.kind, h.target, TRUE, d.user)
                               EXCEPT !.email = email]
                /\ users' = h.table
        /\ UNCHANGED <<session, workouts, sets, inflight>>

\* router.get('/login', checkNotAuthenticated, ...)
GetLogin(s, dbOk) ==
    LET d == DeserializeUser(users, session[s], dbOk)
        g == CheckNotAuthenticated(d.user)
    IN  /\ resp' = IF d.error THEN ErrorResp(s, "GET /login", NoUser)
                   ELSE IF g = "next"
                   THEN Resp(s, "GET /login", "render", "login", TRUE, d.user)
                   ELSE Resp(s, "GET /login", "redirect", g, FALSE, d.user)
        /\ UNCHANGED <<users, session, workouts, sets, inflight>>

\* router.post('/login', passport.authenticate(...), redirect('/dashboard')):
\* the response and the session identity the request leaves behind
LoginRoute(us, sess, s, email, password, dbOk) ==
    LET d == DeserializeUser(us, sess, dbOk)
        a == Authenticate(us, email, password, dbOk)
    IN  IF d.error
        THEN [resp |-> ErrorResp(s, "POST /login", NoUser), sess |-> sess]
        ELSE IF a.outcome = "error"
        THEN [resp |-> ErrorResp(s, "POST /login", d.user), sess |-> sess]
        ELSE IF a.outcome = "fail"
        THEN [resp |-> Resp(s, "POST /login", "redirect", "/login", FALSE, d.user),
              sess |-> sess]
        ELSE [resp |-> Resp(s, "POST /login", "redirect", "/dashboard", TRUE, d.user),
              sess |-> SerializeUser(a.user)]

PostLogin(s, email, password, dbOk) ==
    LET r == LoginRoute(users, session[s], s, email, password, dbOk)
    IN  /\ resp' = [r.resp EXCEPT !.email = email]
        /\ session' = [session EXCEPT ![s] = r.sess]
        /\ UNCHANGED <<users, workouts, sets, inflight>>

\* (mutant) the callback is called but the identity stays in the session
LogOutKeeps(sess, sessOk, kept) ==
    IF sessOk THEN [err |-> FALSE, sess |-> sess]
    ELSE [err |-> TRUE, sess |-> IF kept THEN sess ELSE NoId]

\* req.logout(cb): the identity is dropped from the session and the session is
\* saved and regenerated; cb(err) when the session store fails, and then the
\* store may or may not still hold the identity.
LogOut(sess, sessOk, kept) ==
    IF sessOk THEN [err |-> FALSE, sess |-> NoId]
    ELSE [err |-> TRUE, sess |-> IF kept THEN sess ELSE NoId]

\* router.delete('/logout', ...): no guard
DeleteLogout(s, dbOk, sessOk, kept) ==
    LET d == DeserializeUser(users, session[s], dbOk)
        o == LogOut(session[s], sessOk, kept)
    IN  /\ IF d.error
           THEN /\ resp' = ErrorResp(s, "DELETE /logout", NoUser)
                /\ session' = session
           ELSE /\ resp' = IF o.err THEN ErrorResp(s, "DELETE /logout", d.user)
                           ELSE Resp(s, "DELETE /logout", "redirect", "/", TRUE, d.user)
                /\ session' = [session EXCEPT ![s] = o.sess]
        /\ UNCHANGED <<users, workouts, sets, inflight>>
\* ------------------------------------------------------------ user settings
\* a guarded route that changes the caller's own row (username)
PostSettings(s, username, dbOk) ==
    LET d == DeserializeUser(users, session[s], dbOk)
        g == CheckAuthenticated(d.user)
    IN  /\ IF d.error
           THEN /\ resp' = ErrorResp(s, "POST /dashboard/settings", NoUser)
                /\ users' = users
           ELSE IF g = "next"
           THEN /\ resp' = Resp(s, "POST /dashboard/settings", "redirect",
                                "/dashboard/settings", TRUE, d.user)
                /\ users' = UpdateUsername(users, d.user.id, username)
           ELSE /\ resp' = Resp(s, "POST /dashboard/settings", "redirect", g,
                                FALSE, d.user)
                /\ users' = users
        /\ UNCHANGED <<session, workouts, sets, inflight>>

\* ------------------------------------------------------------ models/workouts
Today == [d |-> 15, m |-> 1, y |-> 2023]
Times == {[h |-> 0, m |-> 45]}
WorkoutNames == {"Leg Day"}
\* the sets a form can hold, in form order: 100 x 5, then 105 x 3, alternating
SetInput(i) ==
    IF i % 2 = 1 THEN [exerciseId |-> 3, weight |-> 100, reps |-> 5]
    ELSE [exerciseId |-> 3, weight |-> 105, reps |-> 3]

\* AUTO_INCREMENT of table `workout`
NextWorkoutId(ws) ==
    IF ws = {} THEN 1
    ELSE 1 + (CHOOSE n \in {w.id : w \in ws} : \A w \in ws : w.id <= n)

\* INSERT INTO workout (name, time, user_id); `date` takes the column default.
\* Returns the driver's insert metadata (insertId) beside the new table.
SaveWorkout(ws, name, time, userId) ==
    LET id == NextWorkoutId(ws) IN
    [insertId |-> id,
     table |-> ws \cup {[id |-> id, name |-> name, date |-> Today,
                         time |-> time, user_id |-> userId]}]

\* (mutant) the placeholders are bound in the wrong order: exercise and
\* workout ids swapped
SaveSetSwapped(ss, set, workoutId) ==
    ss (+) SetToBag({[reps |-> set.reps, weight |-> set.weight,
                      exercise_id |-> workoutId, workout_id |-> set.exerciseId]})

\* INSERT INTO set (reps, weight, exercise_id, workout_id)
SaveSet(ss, set, workoutId) ==
    ss (+) SetToBag({[reps |-> set.reps, weight |-> set.weight,
                      exercise_id |-> set.exerciseId, workout_id |-> workoutId]})

\* (mutant) ORDER BY W.id ASC
RECURSIVE OrderByIdAsc(_)
OrderByIdAsc(ws) ==
    IF ws = {} THEN <<>>
    ELSE LET low == CHOOSE w \in ws : \A x \in ws : w.id <= x.id
         IN  <<low>> \o OrderByIdAsc(ws \ {low})

\* ORDER BY W.id DESC
RECURSIVE OrderByIdDesc(_)
OrderByIdDesc(ws) ==
    IF ws = {} THEN <<>>
    ELSE LET top == CHOOSE w \in ws : \A x \in ws : x.id <= w.id
         IN  <<top>> \o OrderByIdDesc(ws \ {top})

\* LIMIT ?
Limit(rowSeq, n) ==
    SubSeq(rowSeq, 1, IF n < Len(rowSeq) THEN n ELSE Len(rowSeq))

\* SELECT W.id, W.name, DATE_FORMAT(W.date, "%d-%m-%Y") AS date,
\*        HOUR(W.time) AS time_hour, MINUTE(W.time) AS time_minute
SelectColumns(w) ==
    [id |-> w.id, name |-> w.name, date |-> <<w.date.d, w.date.m, w.date.y>>,
     time_hour |-> w.time.h, time_minute |-> w.time.m]

\* (mutant) the WHERE clause is missing
GetWorkoutHistoryAnyUser(ws, rows, userId) ==
    LET ordered == Limit(OrderByIdDesc(ws), rows)
    IN  [i \in DOMAIN ordered |-> SelectColumns(ordered[i])]

\* (mutant) the query joins `set`, so a workout without sets drops out
GetWorkoutHistoryJoinSets(ws, rows, userId) ==
    LET mine == {w \in ws : /\ w.user_id = userId
                            /\ \E r \in BagToSet(sets) : r.workout_id = w.id}
        ordered == Limit(OrderByIdDesc(mine), rows)
    IN  [i \in DOMAIN ordered |-> SelectColumns(ordered[i])]

\* ... FROM workout AS W WHERE user_id = ? ORDER BY W.id DESC LIMIT ?
GetWorkoutHistory(ws, rows, userId) ==
    LET mine == {w \in ws : w.user_id = userId}
        ordered == Limit(OrderByIdDesc(mine), rows)
    IN  [i \in DOMAIN ordered |-> SelectColumns(ordered[i])]

\* ------------------------------------------------------------ dashboard routes
\* GET /dashboard: guarded; renders the caller's recent workouts
GetDashboard(s, dbOk) ==
    LET d == DeserializeUser(users, session[s], dbOk)
        g == CheckAuthenticated(d.user)
    IN  /\ resp' = IF d.error THEN ErrorResp(s, "GET /dashboard", NoUser)
                   ELSE IF g = "next"
                   THEN [Resp(s, "GET /dashboard", "render", "dashboard", TRUE, d.user)
                            EXCEPT !.body = GetWorkoutHistory(workouts, HistoryRows, d.user.id)]
                   ELSE Resp(s, "GET /dashboard", "redirect", g, FALSE, d.user)
        /\ UNCHANGED <<users, session, workouts, sets, inflight>>

\* the save-button listener posts only a named workout with at least one set
ShouldPost(workout) == Len(workout.sets) # 0 /\ workout.name # ""

\* fetch follows redirects to a page, so only a failed request is not a 200
FetchStatus(r) == IF r.kind = "error" THEN 500 ELSE 200

\* postWorkout: if (resp.status === 200) window.location.replace('/dashboard')
PostWorkoutClient(r) ==
    [r EXCEPT !.nav = IF FetchStatus(r) = 200 THEN "/dashboard" ELSE "stay"]

FormSets == {[i \in 1..n |-> SetInput(i)] : n \in 0..MaxSets}

\* POST /dashboard/workout, up to and including the workout insert:
\* guard, then saveWorkout(name, time, req.user.id)
PostWorkoutBegin(s, name, time, formSets, dbOk) ==
    LET d == DeserializeUser(users, session[s], dbOk)
        g == CheckAuthenticated(d.user)
        w == SaveWorkout(workouts, name, time, d.user.id)
    IN  /\ inflight[s] = NoReq
        /\ ShouldPost([name |-> name, time |-> time, sets |-> formSets])
        /\ IF d.error
           THEN /\ resp' = PostWorkoutClient(ErrorResp(s, "POST /dashboard/workout", NoUser))
                /\ UNCHANGED <<workouts, inflight>>
           ELSE IF g # "next"
           THEN /\ resp' = PostWorkoutClient(
                              Resp(s, "POST /dashboard/workout", "redirect", g, FALSE, d.user))
                /\ UNCHANGED <<workouts, inflight>>
           ELSE /\ Cardinality(workouts) < MaxWorkouts
                /\ workouts' = w.table
                /\ inflight' = [inflight EXCEPT ![s] =
                                   [workoutId |-> w.insertId, name |-> name,
                                    sets |-> formSets, done |-> 0, user |-> d.user]]
                /\ resp' = resp
        /\ UNCHANGED <<users, session, sets>>

\* ... one `await saveSet(set, workoutId)` of the handler's loop
PostWorkoutSaveSet(s) ==
    /\ inflight[s] # NoReq
    /\ inflight[s].done < Len(inflight[s].sets)
    /\ sets' = SaveSet(sets, inflight[s].sets[inflight[s].done + 1], inflight[s].workoutId)
    /\ inflight' = [inflight EXCEPT ![s].done = @ + 1]
    /\ UNCHANGED <<users, session, resp, workouts>>

\* ... a statement of the loop rejects (or the process dies): the request ends
\* in an error, and what was inserted so far stays
PostWorkoutFail(s) ==
    /\ inflight[s] # NoReq
    /\ inflight[s].done < Len(inflight[s].sets)
    /\ resp' = PostWorkoutClient(
                   ErrorResp(s, "POST /dashboard/workout", inflight[s].user))
    /\ inflight' = [inflight EXCEPT ![s] = NoReq]
    /\ UNCHANGED <<users, session, workouts, sets>>

\* ... all sets are in: redirect to the dashboard
PostWorkoutEnd(s) ==
    /\ inflight[s] # NoReq
    /\ inflight[s].done = Len(inflight[s].sets)
    /\ resp' = PostWorkoutClient(
                   Resp(s, "POST /dashboard/workout", "redirect", "/dashboard",
                        TRUE, inflight[s].user))
    /\ inflight' = [inflight EXCEPT ![s] = NoReq]
    /\ UNCHANGED <<users, session, workouts, sets>>

\* ------------------------------------------------------------ specifications
Init ==
    /\ users = <<>>
    /\ session = [s \in Sessions |-> NoId]
    /\ resp = NoResp
    /\ workouts = {}
    /\ sets = EmptyBag
    /\ inflight = [s \in Sessions |-> NoReq]

\* one request of session s, served with the database up (dbOk) or down
Request(s, dbOk) ==
    \/ GetSignup(s, dbOk)
    \/ \E e \in Emails, p \in Passwords, n \in SignupNames, salt \in Salts :
           PostSignup(s, e, p, n, salt, dbOk)
    \/ GetLogin(s, dbOk)
    \/ \E e \in LoginEmails, p \in LoginPasswords : PostLogin(s, e, p, dbOk)
    \/ \E sessOk \in BOOLEAN, kept \in BOOLEAN : DeleteLogout(s, dbOk, sessOk, kept)
    \/ \E n \in NewNames : PostSettings(s, n, dbOk)
    \/ GetDashboard(s, dbOk)

Next == \E s \in Sessions, dbOk \in BOOLEAN : Request(s, dbOk)

Spec == Init /\ [][Next]_vars

\* The workout store is explored from a state the auth routes reach: two
\* registered users, s1 logged in as the first, s2 as the second or as nobody.
Registered ==
    <<[id |-> 1, email |-> "ann@fit.io", username |-> "ann",
       password |-> BcryptHash("pw1", "saltA")],
      [id |-> 2, email |-> "bob@fit.io", username |-> "ann",
       password |-> BcryptHash("pw2", "saltA")]>>

InitStore ==
    /\ users = Registered
    /\ session \in {[s \in Sessions |-> IF s = "s1" THEN 1 ELSE id] : id \in {NoId, 2}}
    /\ resp = NoResp
    /\ workouts = {}
    /\ sets = EmptyBag
    /\ inflight = [s \in Sessions |-> NoReq]

NextStore ==
    \E s \in Sessions :
        \/ \E name \in WorkoutNames \cup {""}, time \in Times, fs \in FormSets,
              dbOk \in BOOLEAN :
               PostWorkoutBegin(s, name, time, fs, dbOk)
        \/ PostWorkoutSaveSet(s)
        \/ PostWorkoutFail(s)
        \/ PostWorkoutEnd(s)
        \/ \E dbOk \in BOOLEAN : GetDashboard(s, dbOk)

SpecStore == InitStore /\ [][NextStore]_vars
\* ------------------------------------------------------------ properties
\* the submitted email resolves to a user whose stored hash matches the password
CredentialsMatch(us, email, password) ==
    \E i \in DOMAIN us :
        us[i].email = email /\ BcryptCompare(password, us[i].password)

Anonymous(s) == session[s] = NoId
Authenticated(s) == session[s] # NoId

\* C1: POST /login from an Anonymous session ends Authenticated with a redirect
\* to /dashboard if and only if the email resolves to a user and the password
\* matches the stored hash; in every other case the session stays Anonymous and
\* the response is a redirect to /login.
C1_LoginIffCredentials ==
    [][\A s \in Sessions, e \in LoginEmails, p \in LoginPasswords, dbOk \in BOOLEAN :
          (Anonymous(s) /\ PostLogin(s, e, p, dbOk)) =>
              IF CredentialsMatch(users, e, p)
              THEN /\ session'[s] # NoId
                   /\ resp'.kind = "redirect" /\ resp'.target = "/dashboard"
              ELSE /\ session'[s] = NoId
                   /\ resp'.kind = "redirect" /\ resp'.target = "/login"]_vars

\* C2: a login with an unknown email and a login with a known email and a wrong
\* password are indistinguishable: verify hands back the same thing and the
\* route leaves the same response and session.
C2_FailuresIndistinguishable ==
    \A s \in Sessions, e1 \in Emails, e2 \in Emails, p1 \in Passwords, p2 \in Passwords :
        ( /\ GetUserByEmail(users, e1) = NoUser
          /\ GetUserByEmail(users, e2) # NoUser
          /\ ~CredentialsMatch(users, e2, p2) ) =>
            /\ Verify(users, e1, p1, TRUE) = Verify(users, e2, p2, TRUE)
            /\ LoginRoute(users, NoId, s, e1, p1, TRUE)
                   = LoginRoute(users, NoId, s, e2, p2, TRUE)

\* what the route alone leaves behind is the same for the two causes
C2_ResponsesIndistinguishable ==
    \A s \in Sessions, e1 \in Emails, e2 \in Emails, p1 \in Passwords, p2 \in Passwords :
        ( /\ GetUserByEmail(users, e1) = NoUser
          /\ GetUserByEmail(users, e2) # NoUser
          /\ ~CredentialsMatch(users, e2, p2) ) =>
            LoginRoute(users, NoId, s, e1, p1, TRUE)
                = LoginRoute(users, NoId, s, e2, p2, TRUE)

\* a request of session s to a route behind checkAuthenticated
GuardedRequest(s) ==
    \E dbOk \in BOOLEAN :
        \/ GetDashboard(s, dbOk)
        \/ \E n \in NewNames : PostSettings(s, n, dbOk)

\* C3: once DELETE /logout has completed the session is Anonymous; an Anonymous
\* session's request to a guarded route is redirected to /login without the
\* handler running; and only a successful login ends being Anonymous.
C3_LogoutThenGuarded ==
    [][\A s \in Sessions :
          /\ ( /\ \E dbOk \in BOOLEAN, sessOk \in BOOLEAN, kept \in BOOLEAN :
                      DeleteLogout(s, dbOk, sessOk, kept)
               /\ resp'.kind = "redirect" ) => session'[s] = NoId
          /\ (Anonymous(s) /\ GuardedRequest(s)) =>
                 /\ resp'.kind = "redirect" /\ resp'.target = "/login"
                 /\ ~resp'.handler
                 /\ session'[s] = NoId
          /\ (Anonymous(s) /\ session'[s] # NoId) =>
                 \E e \in LoginEmails, p \in LoginPasswords :
                     PostLogin(s, e, p, TRUE) /\ CredentialsMatch(users, e, p)]_vars

\* a logout that completed on a session that was Authenticated
C3_Witness ==
    /\ resp.route = "DELETE /logout" /\ resp.kind = "redirect"
    /\ resp.user # NoUser
    /\ session[resp.sid] = NoId

\* the workouts of a user, and the rows of `set` that reference a workout
WorkoutsOf(ws, userId) == {w \in ws : w.user_id = userId}
SetRowsOf(ss, workoutId) == {r \in BagToSet(ss) : r.workout_id = workoutId}
CountSetRowsOf(ss, workoutId) ==
    BagCardinality([r \in SetRowsOf(ss, workoutId) |-> ss[r]])

\* C4: getWorkoutHistory(n, userId) returns at most n rows, each the row of a
\* workout of that user, and nothing for a user without workouts, whatever
\* the others have saved.
C4_HistoryBoundedAndOwned ==
    \A n \in 0..(MaxWorkouts + 1), u \in 1..(MaxUsers + 1) :
        LET h == GetWorkoutHistory(workouts, n, u) IN
        /\ Len(h) <= n
        /\ \A i \in DOMAIN h :
               \E w \in WorkoutsOf(workouts, u) : w.id = h[i].id /\ w.name = h[i].name
        /\ (WorkoutsOf(workouts, u) = {}) => h = <<>>

\* a user with more workouts than asked for, while another user has workouts too
C4_Witness ==
    \E u \in UserIds(users), v \in UserIds(users) :
        /\ u # v
        /\ Cardinality(WorkoutsOf(workouts, u)) = 2
        /\ WorkoutsOf(workouts, v) # {}
        /\ Len(GetWorkoutHistory(workouts, 1, u)) = 1

\* C5: saveWorkout(name, time, userId) followed by getWorkoutHistory(1, userId)
\* returns exactly one row, the workout just saved (its id the inserted id, its
\* name the saved name), whatever was saved before by this or other users.
C5_SavedIsMostRecent ==
    \A name \in WorkoutNames, time \in Times, u \in UserIds(users) :
        LET saved == SaveWorkout(workouts, name, time, u)
            h == GetWorkoutHistory(saved.table, 1, u)
        IN  /\ Len(h) = 1
            /\ h[1].id = saved.insertId
            /\ h[1].name = name
            /\ \A w \in workouts : w.id # saved.insertId
            /\ \E w \in saved.table :
                   w.id = saved.insertId /\ w.user_id = u /\ w.name = name

\* a request has just saved a workout for a user who already had one, another
\* user has workouts too, and the history's first row is the new workout
C5_Witness ==
    \E s \in Sessions :
        /\ inflight[s] # NoReq
        /\ inflight[s].done = 0
        /\ Cardinality(WorkoutsOf(workouts, inflight[s].user.id)) = 2
        /\ \E w \in workouts : w.user_id # inflight[s].user.id
        /\ GetWorkoutHistory(workouts, 1, inflight[s].user.id)[1].id
               = inflight[s].workoutId

\* C6: POST /signup with an email that is already registered is a handled
\* failure, a redirect to /signup, and leaves the user rows as they were.
C6_DuplicateSignupHandled ==
    [][\A s \in Sessions, e \in Emails, p \in Passwords, n \in SignupNames,
          salt \in Salts, dbOk \in BOOLEAN :
          ( /\ PostSignup(s, e, p, n, salt, dbOk)
            /\ GetUserByEmail(users, e) # NoUser
            /\ (Anonymous(s) \/ dbOk) ) =>
              /\ resp'.kind = "redirect" /\ resp'.target = "/signup"
              /\ users' = users]_vars

\* a signup for a registered email, with the database up, was turned back
C6_Witness ==
    /\ resp.route = "POST /signup" /\ resp.target = "/signup"
    /\ GetUserByEmail(users, resp.email) # NoUser
    /\ Len(users) = 1

\* the row saveSet is to insert for a form set
ExpectedSetRow(set, workoutId) ==
    [reps |-> set.reps, weight |-> set.weight, exercise_id |-> set.exerciseId,
     workout_id |-> workoutId]

\* C7: a create-workout request with a name and k sets that completes has added
\* one workout row owned by the requesting user and k set rows, each
\* referencing that workout's id, and the browser is sent to /dashboard.
C7_CreateAddsWorkoutAndSets ==
    [][\A s \in Sessions :
          PostWorkoutEnd(s) =>
              LET r == inflight[s]
                  rows == {ExpectedSetRow(r.sets[i], r.workoutId) : i \in DOMAIN r.sets}
              IN  /\ Cardinality({w \in workouts' : w.id = r.workoutId}) = 1
                  /\ \A w \in workouts' :
                         w.id = r.workoutId =>
                             w.user_id = session[s] /\ w.name = r.name
                  /\ SetRowsOf(sets', r.workoutId) = rows
                  /\ \A row \in rows :
                         CopiesIn(row, sets')
                             = Cardinality({i \in DOMAIN r.sets :
                                   ExpectedSetRow(r.sets[i], r.workoutId) = row})
                  /\ CountSetRowsOf(sets', r.workoutId) = Len(r.sets)
                  /\ resp'.kind = "redirect" /\ resp'.target = "/dashboard"
                  /\ resp'.nav = "/dashboard"]_vars

\* a request with two sets completed: its workout has its two set rows
C7_Witness ==
    /\ resp.route = "POST /dashboard/workout" /\ resp.kind = "redirect"
    /\ resp.target = "/dashboard" /\ resp.handler
    /\ inflight[resp.sid] = NoReq
    /\ \E w \in WorkoutsOf(workouts, resp.user.id) :
           CountSetRowsOf(sets, w.id) = 2

\* C8: the session holds the user's numeric id and nothing else, and the user
\* attached to a request is the row the store holds under that id at that
\* request, so a changed row is what the next request sees.
C8_SessionHoldsIdUserRefetched ==
    [][\A s \in Sessions, dbOk \in BOOLEAN :
          Request(s, dbOk) =>
              /\ session'[s] \in {NoId} \cup UserIds(users)
              /\ (Authenticated(s) /\ dbOk) =>
                     /\ resp'.user.id = session[s]
                     /\ \E i \in DOMAIN users : users[i] = resp'.user
              /\ Anonymous(s) => resp'.user = NoUser
              /\ (Anonymous(s) /\ session'[s] # NoId) =>
                     \E i \in DOMAIN users :
                         users[i].email = resp'.email /\ users[i].id = session'[s]]_vars

\* a request was served the username that an earlier request had changed
C8_Witness ==
    /\ resp.route = "GET /dashboard" /\ resp.kind = "render"
    /\ resp.user # NoUser
    /\ resp.user.username \in NewNames
    /\ session[resp.sid] = resp.user.id

\* C9: the guards decide on the session state before the handler: behind
\* checkAuthenticated the handler runs exactly when the session is
\* Authenticated, else /login; behind checkNotAuthenticated exactly when it is
\* Anonymous, else '/'; one of the two happens and the session is left alone.
C9_GuardsDecide ==
    [][\A s \in Sessions, dbOk \in BOOLEAN :
          (Anonymous(s) \/ dbOk) =>
              /\ (GetSignup(s, dbOk) \/ GetLogin(s, dbOk)) =>
                     /\ resp'.handler <=> Anonymous(s)
                     /\ resp'.handler => resp'.kind = "render"
                     /\ ~resp'.handler =>
                            resp'.kind = "redirect" /\ resp'.target = "/"
                     /\ session' = session
              /\ (GetDashboard(s, dbOk) \/ \E n \in NewNames : PostSettings(s, n, dbOk)) =>
                     /\ resp'.handler <=> Authenticated(s)
                     /\ ~resp'.handler =>
                            resp'.kind = "redirect" /\ resp'.target = "/login"
                     /\ session' = session]_vars

\* an Authenticated session asked for the login page and was sent to '/'
C9_Witness ==
    /\ resp.route = "GET /login" /\ resp.kind = "redirect" /\ resp.target = "/"
    /\ ~resp.handler
    /\ session[resp.sid] # NoId

\* the workout's row is among the rows the history query returns for its user
InHistory(ws, workoutId, userId) ==
    LET h == GetWorkoutHistory(ws, Cardinality(ws), userId)
    IN  \E i \in DOMAIN h : h[i].id = workoutId

\* no request is serving this workout
Abandoned(w) == \A s \in Sessions : inflight[s].workoutId # w.id

\* C10: creating a workout is not atomic: when the request fails after the
\* workout insert, the workout row and the set rows inserted so far stay, the
\* workout shows in its user's history, and no later step removes the row or
\* adds the missing sets.
C10_NoRollbackNoResume ==
    [][/\ workouts \subseteq workouts'
       /\ \A s \in Sessions :
              PostWorkoutFail(s) =>
                  /\ workouts' = workouts /\ sets' = sets
                  /\ inflight'[s] = NoReq
                  /\ CountSetRowsOf(sets', inflight[s].workoutId) < Len(inflight[s].sets)
                  /\ InHistory(workouts', inflight[s].workoutId, session[s])
       /\ \A w \in workouts :
              Abandoned(w) =>
                  /\ \A s \in Sessions : inflight'[s].workoutId # w.id
                  /\ CountSetRowsOf(sets', w.id) = CountSetRowsOf(sets, w.id)]_vars

\* a failed request left a workout without any set, and the history shows it
C10_Witness ==
    /\ resp.route = "POST /dashboard/workout" /\ resp.kind = "error"
    /\ resp.user # NoUser
    /\ \E w \in WorkoutsOf(workouts, resp.user.id) :
           /\ Abandoned(w)
           /\ CountSetRowsOf(sets, w.id) = 0
           /\ InHistory(workouts, w.id, w.user_id)
====
